---- MODULE Spec2Model ----
(***************************************************************************)
(* Model of the InterviewCoach component                                   *)
(* (src/frontend/src/components/InterviewCoach.tsx).                       *)
(*                                                                         *)
(* The component is single threaded and event driven.  Every action below  *)
(* is one task of the event loop: a click handler, the continuation of     *)
(* startRecording after getUserMedia settles, a MediaRecorder event, the   *)
(* setTimeout callback, or the continuation of sendAudioToServer after     *)
(* fetch settles.  React re-renders between tasks, so the button's onClick *)
(* and the view are functions of the current state.                        *)
(*                                                                         *)
(* Every call of startRecording gets an identifier 1, 2, ...  The stream,  *)
(* the MediaRecorder, the deadline timer and the upload that come from     *)
(* that call carry the same identifier.                                    *)
(*                                                                         *)
(* The host environment is free in what the code does not fix: the user    *)
(* may click and type at any moment, a getUserMedia promise may settle at  *)
(* any moment and in any order, the MediaRecorder constructor and start()  *)
(* may throw, a capturing recorder may deliver chunks, the captured stream *)
(* may end by itself, and a fetch may settle at any moment with any body   *)
(* or fail.  The task queued by MediaRecorder.stop() may run after later   *)
(* clicks and promise continuations, as tasks of different sources are not *)
(* ordered.                                                                *)
(***************************************************************************)
EXTENDS Integers, Sequences, FiniteSets, TLC

\* Number of times startRecording may be invoked in a behaviour.
MaxStarts == 2
\* Number of chunks the recorders may deliver while capturing in a behaviour
\* (the final chunk flushed when each recording stops comes on top of these).
MaxChunks == 1

Ids == 1..MaxStarts

\* Successive contents of the job description field: '' initially, then what
\* the user has typed.
JobTexts == <<"", "python api">>

\* Responses the server may send: an HTTP status, inside 200..299
\* (response.ok) or outside, and a body that parses to a ProcessedResult.  An
\* absent score (null) is the empty sequence, a present one a sequence of one
\* ScoreResult.  Fractional numbers are in thousandths: filler_ratio 500 is
\* 0.5, score 82456 is 82.456.
Responses ==
    { [status |-> 200,
       body |-> [success |-> TRUE, transcription |-> "hello world",
                 analysis |-> [total_words |-> 2, filler_words |-> 0,
                               filler_ratio |-> 0],
                 score |-> <<>>, feedback |-> <<"Good job">>]],
      [status |-> 500,
       body |-> [success |-> FALSE, transcription |-> "um hello",
                 analysis |-> [total_words |-> 2, filler_words |-> 1,
                               filler_ratio |-> 500],
                 score |-> <<[score |-> 82456,
                              matched_keywords |-> <<"python", "api">>]>>,
                 feedback |-> <<"Fewer fillers", "Slow down">>]] }
Statuses == {rsp.status : rsp \in Responses}
Bodies == {rsp.body : rsp \in Responses}
ResponseOk(status) == status \in 200..299

\* useRef<MediaRecorder | null>(null)
NoRecorder == 0
\* useState<ProcessedResult | null>(null): null is the empty sequence, a held
\* result a sequence of one record (the parsed body, tagged with the upload
\* it answers).
NoResult == <<>>

VARIABLES
    isRecording,       \* useState(false)
    jobDescription,    \* useState('')
    loading,           \* useState(false)
    result,            \* useState<ProcessedResult | null>(null)
    mediaRecorderRef,  \* mediaRecorderRef.current: a recorder id or NoRecorder
    chunksRef,         \* chunksRef.current: sequence of chunks
    started,           \* number of startRecording calls made so far
    mic,               \* per call: state of its getUserMedia promise
    reqJd,             \* per call: jobDescription in the closure of the call
    recState,          \* per recorder: MediaRecorder.state, "none" before creation
    trackLive,         \* per stream: TRUE while its tracks are live
    nDelivered,        \* per recorder: number of dataavailable events delivered
    stopTasks,         \* queued recorder tasks (final dataavailable + stop), FIFO
    timers,            \* armed setTimeout callbacks, in firing order
    stoppedBy,         \* per recorder: what called stop() on it, until its upload settles
    upl,               \* per recorder: state of the POST issued for it
    uplBlob,           \* per recorder: the audio field of its POST in flight
    uplJd,             \* per recorder: the job_description field of that POST
    posts,             \* per recorder: number of POSTs issued for it
    postOrder,         \* the recorders whose POST was issued, in order of issue
    startFailed,       \* the recorders whose start() threw
    micAlerts,         \* number of 'Error accessing microphone' alerts shown
    uploadAlerts       \* number of 'Error processing audio' alerts shown

vars == <<isRecording, jobDescription, loading, result, mediaRecorderRef,
          chunksRef, started, mic, reqJd, recState, trackLive, nDelivered,
          stopTasks, timers, stoppedBy, upl, uplBlob, uplJd, posts,
          postOrder, startFailed, micAlerts, uploadAlerts>>

----------------------------------------------------------------------------
\* Data

\* The k-th Blob delivered by recorder r: its bytes.  Chunks differ in
\* content and in length.  A recorder whose start() threw has captured
\* nothing: what it delivers has no bytes.
ChunkData(r, k) ==
    IF r \in startFailed THEN <<>>
    ELSE [i \in 1..(1 + (k % 2)) |-> 10 * r + k]

\* new Blob(parts): the bytes of the parts, concatenated in array order.
RECURSIVE Blob(_)
Blob(parts) ==
    IF parts = <<>> THEN <<>> ELSE Head(parts) \o Blob(Tail(parts))

\* The chunks delivered so far to the listeners of recorder r, in order.
Delivered(r) == [k \in 1..nDelivered[r] |-> ChunkData(r, k)]

Range(f) == {f[x] : x \in DOMAIN f}

NotStopped == <<"none", 0>>
Manual == <<"manual", 0>>
ByTimer(t) == <<"timer", t>>

----------------------------------------------------------------------------
----------------------------------------------------------------------------
Init ==
    /\ isRecording = FALSE
    /\ jobDescription = ""
    /\ loading = FALSE
    /\ result = NoResult
    /\ mediaRecorderRef = NoRecorder
    /\ chunksRef = <<>>
    /\ started = 0
    /\ mic = [i \in Ids |-> "none"]
    /\ reqJd = [i \in Ids |-> ""]
    /\ recState = [i \in Ids |-> "none"]
    /\ trackLive = [i \in Ids |-> FALSE]
    /\ nDelivered = [i \in Ids |-> 0]
    /\ stopTasks = <<>>
    /\ timers = <<>>
    /\ stoppedBy = [i \in Ids |-> NotStopped]
    /\ upl = [i \in Ids |-> "none"]
    /\ uplBlob = [i \in Ids |-> <<>>]
    /\ uplJd = [i \in Ids |-> ""]
    /\ posts = [i \in Ids |-> 0]
    /\ postOrder = <<>>
    /\ startFailed = {}
    /\ micAlerts = 0
    /\ uploadAlerts = 0

----------------------------------------------------------------------------
\* onChange of the job description field: the user types the text.
setJobDescription(v) ==
    /\ \E i, j \in DOMAIN JobTexts :
          i < j /\ jobDescription = JobTexts[i] /\ v = JobTexts[j]
    /\ jobDescription' = v
    /\ UNCHANGED <<isRecording, loading, result, mediaRecorderRef, chunksRef,
                   started, mic, reqJd, recState, trackLive, nDelivered,
                   stopTasks, timers, stoppedBy, upl, uplBlob, uplJd, posts,
                   postOrder, micAlerts, uploadAlerts, startFailed>>

\* stopRecording without the release of the stream's tracks.
stopRecording_keepsTracks(by) ==
    IF mediaRecorderRef # NoRecorder /\ recState[mediaRecorderRef] = "recording"
    THEN /\ recState' = [recState EXCEPT ![mediaRecorderRef] = "inactive"]
         /\ stopTasks' = Append(stopTasks, mediaRecorderRef)
         /\ trackLive' = trackLive
         /\ isRecording' = FALSE
         /\ stoppedBy' = [stoppedBy EXCEPT ![mediaRecorderRef] = by]
    ELSE UNCHANGED <<recState, trackLive, stopTasks, stoppedBy, isRecording,
                   startFailed>>

\* stopRecording without the test of the recorder's state.
stopRecording_unguarded(by) ==
    IF mediaRecorderRef # NoRecorder
    THEN /\ recState' = [recState EXCEPT ![mediaRecorderRef] = "inactive"]
         /\ stopTasks' = Append(stopTasks, mediaRecorderRef)
         /\ trackLive' = [trackLive EXCEPT ![mediaRecorderRef] = FALSE]
         /\ isRecording' = FALSE
         /\ stoppedBy' = [stoppedBy EXCEPT ![mediaRecorderRef] = by]
    ELSE UNCHANGED <<recState, trackLive, stopTasks, stoppedBy, isRecording,
                   startFailed>>

\* stopRecording, called by `by`: acts only on the current recorder, and only
\* if it is capturing.  MediaRecorder.stop() sets state to 'inactive' at once
\* and queues the task that fires the final dataavailable and stop events.
stopRecording(by) ==
    IF mediaRecorderRef # NoRecorder /\ recState[mediaRecorderRef] = "recording"
    THEN /\ recState' = [recState EXCEPT ![mediaRecorderRef] = "inactive"]
         /\ stopTasks' = Append(stopTasks, mediaRecorderRef)
         /\ trackLive' = [trackLive EXCEPT ![mediaRecorderRef] = FALSE]
         /\ isRecording' = FALSE
         /\ stoppedBy' = [stoppedBy EXCEPT ![mediaRecorderRef] = by]
    ELSE UNCHANGED <<recState, trackLive, stopTasks, stoppedBy, isRecording,
                   startFailed>>

\* onClick of the record button while the view shows 'Stop Recording'.
ClickStop ==
    /\ isRecording
    /\ stopRecording(Manual)
    /\ UNCHANGED <<jobDescription, loading, result, mediaRecorderRef,
                   chunksRef, started, mic, reqJd, nDelivered, timers, upl,
                   uplBlob, uplJd, posts, postOrder, micAlerts, uploadAlerts,
                   startFailed>>

\* onClick of the record button while the view shows 'Start Recording (30s)':
\* startRecording runs up to its await; the getUserMedia promise is pending.
\* The closure of this call holds the jobDescription of the current render.
ClickStart ==
    /\ ~isRecording
    /\ started < MaxStarts
    /\ started' = started + 1
    /\ mic' = [mic EXCEPT ![started + 1] = "pending"]
    /\ reqJd' = [reqJd EXCEPT ![started + 1] = jobDescription]
    /\ UNCHANGED <<isRecording, jobDescription, loading, result,
                   mediaRecorderRef, chunksRef, recState, trackLive,
                   nDelivered, stopTasks, timers, stoppedBy, upl, uplBlob,
                   uplJd, posts, postOrder, micAlerts, uploadAlerts,
                   startFailed>>

\* The try block after getUserMedia resolves, without the reset of the
\* chunk buffer.
MicGranted_keepsBuffer(id) ==
    /\ mic[id] = "pending"
    /\ mic' = [mic EXCEPT ![id] = "granted"]
    /\ trackLive' = [trackLive EXCEPT ![id] = TRUE]
    /\ mediaRecorderRef' = id
    /\ recState' = [recState EXCEPT ![id] = "recording"]
    /\ isRecording' = TRUE
    /\ timers' = Append(timers, id)
    /\ UNCHANGED <<jobDescription, loading, result, started, reqJd, nDelivered,
                   stopTasks, stoppedBy, upl, uplBlob, uplJd, posts, postOrder,
                   micAlerts, uploadAlerts, chunksRef, startFailed>>

\* getUserMedia of call id resolves with a stream: the rest of the try block.
MicGranted(id) ==
    /\ mic[id] = "pending"
    /\ mic' = [mic EXCEPT ![id] = "granted"]
    /\ trackLive' = [trackLive EXCEPT ![id] = TRUE]
    /\ mediaRecorderRef' = id
    /\ chunksRef' = <<>>
    /\ recState' = [recState EXCEPT ![id] = "recording"]
    /\ isRecording' = TRUE
    /\ timers' = Append(timers, id)
    /\ UNCHANGED <<jobDescription, loading, result, started, reqJd, nDelivered,
                   stopTasks, stoppedBy, upl, uplBlob, uplJd, posts, postOrder,
                   micAlerts, uploadAlerts, startFailed>>

\* getUserMedia of call id resolves with a stream and new MediaRecorder(stream)
\* throws (no MediaRecorder in the host, a stream it cannot record): the catch
\* block runs with the stream acquired and nothing else done.  The tracks of
\* the stream are not stopped.
MicGranted_newMediaRecorderThrows(id) ==
    /\ mic[id] = "pending"
    /\ mic' = [mic EXCEPT ![id] = "granted"]
    /\ trackLive' = [trackLive EXCEPT ![id] = TRUE]
    /\ reqJd' = [reqJd EXCEPT ![id] = ""]
    /\ micAlerts' = micAlerts + 1
    /\ UNCHANGED <<isRecording, jobDescription, loading, result,
                   mediaRecorderRef, chunksRef, started, recState, nDelivered,
                   stopTasks, timers, stoppedBy, upl, uplBlob, uplJd, posts,
                   postOrder, uploadAlerts, startFailed>>

\* What a start() that throws leaves behind: the state of the recorder and
\* whether the track of its stream is live.  By the MediaRecorder
\* specification the recorder is left 'inactive', with the track live or
\* ended (an ended track is one reason for the exception); the browser may
\* as well leave the recorder in state 'recording' on its ended track.
StartThrowsOutcomes ==
    { [state |-> "inactive", live |-> TRUE],
      [state |-> "inactive", live |-> FALSE],
      [state |-> "recording", live |-> FALSE] }

\* getUserMedia of call id resolves with a stream and the recorder's start()
\* throws, leaving the recorder and the track as in `out`: the catch block
\* runs after the recorder was made the current one and the chunk buffer was
\* reset.  isRecording is not set and no timer is armed; the code stops no
\* track.  A recorder left in state 'recording' captures nothing and delivers
\* nothing until stop() is called on it.  The listeners were registered
\* before start() was called: the 'stop' listener keeps the closure of the
\* call, and with it the jobDescription of the click.
MicGranted_startThrows(id, out) ==
    /\ mic[id] = "pending"
    /\ mic' = [mic EXCEPT ![id] = "granted"]
    /\ trackLive' = [trackLive EXCEPT ![id] = out.live]
    /\ mediaRecorderRef' = id
    /\ chunksRef' = <<>>
    /\ recState' = [recState EXCEPT ![id] = out.state]
    /\ startFailed' = startFailed \cup {id}
    /\ micAlerts' = micAlerts + 1
    /\ UNCHANGED <<isRecording, jobDescription, loading, result, started, reqJd,
                   nDelivered, stopTasks, timers, stoppedBy, upl, uplBlob,
                   uplJd, posts, postOrder, uploadAlerts>>

\* The catch block, also emptying the chunk buffer.
MicDenied_resetsBuffer(id) ==
    /\ mic[id] = "pending"
    /\ mic' = [mic EXCEPT ![id] = "denied"]
    /\ reqJd' = [reqJd EXCEPT ![id] = ""]
    /\ micAlerts' = micAlerts + 1
    /\ chunksRef' = <<>>
    /\ UNCHANGED <<isRecording, jobDescription, loading, result,
                   mediaRecorderRef, started, recState, trackLive, nDelivered,
                   stopTasks, timers, stoppedBy, upl, uplBlob, uplJd, posts,
                   postOrder, uploadAlerts, startFailed>>

\* getUserMedia of call id rejects (permission denied, no device): the catch
\* block.  The call has returned, its closure is dropped.
MicDenied(id) ==
    /\ mic[id] = "pending"
    /\ mic' = [mic EXCEPT ![id] = "denied"]
    /\ reqJd' = [reqJd EXCEPT ![id] = ""]
    /\ micAlerts' = micAlerts + 1
    /\ UNCHANGED <<isRecording, jobDescription, loading, result,
                   mediaRecorderRef, chunksRef, started, recState, trackLive,
                   nDelivered, stopTasks, timers, stoppedBy, upl, uplBlob,
                   uplJd, posts, postOrder, uploadAlerts, startFailed>>

\* Number of chunks delivered before any stop(), by recorders 1..n.
RECURSIVE MidChunks(_)
MidChunks(n) ==
    IF n = 0 THEN 0 ELSE nDelivered[n] - posts[n] + MidChunks(n - 1)

\* The 'dataavailable' listener of recorder r, for a chunk delivered while r
\* is capturing: pushes onto whatever array chunksRef.current is now.
DataAvailable(r) ==
    /\ recState[r] = "recording"
    /\ r \notin startFailed
    /\ MidChunks(MaxStarts) < MaxChunks
    /\ nDelivered' = [nDelivered EXCEPT ![r] = @ + 1]
    /\ chunksRef' = Append(chunksRef, ChunkData(r, nDelivered[r] + 1))
    /\ UNCHANGED <<isRecording, jobDescription, loading, result,
                   mediaRecorderRef, started, mic, reqJd, recState, trackLive,
                   stopTasks, timers, stoppedBy, upl, uplBlob, uplJd, posts,
                   postOrder, micAlerts, uploadAlerts, startFailed>>

\* sendAudioToServer up to its await, called from the closure of call r:
\* setLoading(true), build the form, issue the POST.
sendAudioToServer(r, audioBlob) ==
    /\ loading' = TRUE
    /\ upl' = [upl EXCEPT ![r] = "inflight"]
    /\ uplBlob' = [uplBlob EXCEPT ![r] = audioBlob]
    /\ uplJd' = [uplJd EXCEPT ![r] = reqJd[r]]
    /\ posts' = [posts EXCEPT ![r] = @ + 1]
    /\ postOrder' = Append(postOrder, r)

\* The recorder's task with a 'stop' listener that builds the blob and drops it.
RecorderStopped_noSend ==
    /\ stopTasks # <<>>
    /\ LET r == Head(stopTasks)
           chunks == Append(chunksRef, ChunkData(r, nDelivered[r] + 1))
       IN /\ stopTasks' = Tail(stopTasks)
          /\ nDelivered' = [nDelivered EXCEPT ![r] = @ + 1]
          /\ chunksRef' = chunks
    /\ UNCHANGED <<isRecording, jobDescription, result, mediaRecorderRef,
                   started, mic, reqJd, recState, trackLive, timers, stoppedBy,
                   micAlerts, uploadAlerts, loading, upl, uplBlob, uplJd,
                   posts, postOrder, startFailed>>

\* The task queued for recorder r, by MediaRecorder.stop() or by the end of
\* its stream, runs: the final 'dataavailable' event and then the 'stop'
\* event, both to r's listeners.
RecorderStopped ==
    /\ stopTasks # <<>>
    /\ LET r == Head(stopTasks)
           chunks == Append(chunksRef, ChunkData(r, nDelivered[r] + 1))
       IN /\ stopTasks' = Tail(stopTasks)
          /\ nDelivered' = [nDelivered EXCEPT ![r] = @ + 1]
          /\ chunksRef' = chunks
          /\ sendAudioToServer(r, Blob(chunks))
    /\ UNCHANGED <<isRecording, jobDescription, result, mediaRecorderRef,
                   started, mic, reqJd, recState, trackLive, timers, stoppedBy,
                   micAlerts, uploadAlerts, startFailed>>

\* The stream captured by recorder r ends without any stop() call (device
\* unplugged, permission revoked): the recorder goes 'inactive' and the host
\* queues the task that fires the final 'dataavailable' and the 'stop' event
\* to r's listeners.  stopRecording has not run, so isRecording keeps its
\* value.
StreamEnded(r) ==
    /\ recState[r] = "recording"
    /\ r \notin startFailed
    /\ recState' = [recState EXCEPT ![r] = "inactive"]
    /\ trackLive' = [trackLive EXCEPT ![r] = FALSE]
    /\ stopTasks' = Append(stopTasks, r)
    /\ UNCHANGED <<isRecording, jobDescription, loading, result,
                   mediaRecorderRef, chunksRef, started, mic, reqJd,
                   nDelivered, timers, stoppedBy, upl, uplBlob, uplJd, posts,
                   postOrder, startFailed, micAlerts, uploadAlerts>>

\* The setTimeout callback armed by call Head(timers) runs.  Timers share one
\* delay, so they fire in the order in which they were armed.
TimerFired ==
    /\ timers # <<>>
    /\ timers' = Tail(timers)
    /\ stopRecording(ByTimer(Head(timers)))
    /\ UNCHANGED <<jobDescription, loading, result, mediaRecorderRef,
                   chunksRef, started, mic, reqJd, nDelivered, upl, uplBlob,
                   uplJd, posts, postOrder, micAlerts, uploadAlerts,
                   startFailed>>

\* sendAudioToServer for upload u has returned: its form data and the closure
\* it was called from are dropped, and so is what the session recorded.
sessionDropped(u) ==
    /\ uplBlob' = [uplBlob EXCEPT ![u] = <<>>]
    /\ uplJd' = [uplJd EXCEPT ![u] = ""]
    /\ reqJd' = [reqJd EXCEPT ![u] = ""]
    /\ stoppedBy' = [stoppedBy EXCEPT ![u] = NotStopped]

\* The continuation of fetch that treats a status outside 200..299 as a
\* failed upload.
UploadResponded_rejectsErrorStatus(u, status, body) ==
    /\ upl[u] = "inflight"
    /\ upl' = [upl EXCEPT ![u] = "ok"]
    /\ result' = IF ResponseOk(status)
                 THEN <<[sub |-> u, data |-> body]>> ELSE result
    /\ uploadAlerts' = IF ResponseOk(status)
                       THEN uploadAlerts ELSE uploadAlerts + 1
    /\ loading' = FALSE
    /\ sessionDropped(u)
    /\ UNCHANGED <<isRecording, jobDescription, mediaRecorderRef, chunksRef,
                   started, mic, recState, trackLive, nDelivered, stopTasks,
                   timers, posts, postOrder, micAlerts, startFailed>>

\* fetch of upload u resolves with `status` and its body parses to `body`:
\* setResult(data), then the finally block.  The status is not looked at.
UploadResponded(u, status, body) ==
    /\ upl[u] = "inflight"
    /\ upl' = [upl EXCEPT ![u] = "ok"]
    /\ result' = <<[sub |-> u, data |-> body]>>
    /\ loading' = FALSE
    /\ sessionDropped(u)
    /\ UNCHANGED <<isRecording, jobDescription, mediaRecorderRef, chunksRef,
                   started, mic, recState, trackLive, nDelivered, stopTasks,
                   timers, posts, postOrder, micAlerts, uploadAlerts,
                   startFailed>>

\* The catch block, also clearing the result.
UploadFailed_clearsResult(u) ==
    /\ upl[u] = "inflight"
    /\ upl' = [upl EXCEPT ![u] = "failed"]
    /\ uploadAlerts' = uploadAlerts + 1
    /\ result' = NoResult
    /\ loading' = FALSE
    /\ sessionDropped(u)
    /\ UNCHANGED <<isRecording, jobDescription, mediaRecorderRef, chunksRef,
                   started, mic, recState, trackLive, nDelivered, stopTasks,
                   timers, posts, postOrder, micAlerts, startFailed>>

\* fetch of upload u rejects (network or transport failure), or
\* response.json() rejects (the body does not parse): the catch block, then
\* the finally block.
UploadFailed(u) ==
    /\ upl[u] = "inflight"
    /\ upl' = [upl EXCEPT ![u] = "failed"]
    /\ uploadAlerts' = uploadAlerts + 1
    /\ loading' = FALSE
    /\ sessionDropped(u)
    /\ UNCHANGED <<isRecording, jobDescription, result, mediaRecorderRef,
                   chunksRef, started, mic, recState, trackLive, nDelivered,
                   stopTasks, timers, posts, postOrder, micAlerts,
                   startFailed>>

\* The steps of recording and uploading: every step but the typing in the job
\* description field.
RecordingNext ==
    \/ ClickStart
    \/ ClickStop
    \/ \E id \in Ids : MicGranted(id)
    \/ \E id \in Ids : MicGranted_newMediaRecorderThrows(id)
    \/ \E id \in Ids, out \in StartThrowsOutcomes :
          MicGranted_startThrows(id, out)
    \/ \E id \in Ids : MicDenied(id)
    \/ \E r \in Ids : DataAvailable(r)
    \/ RecorderStopped
    \/ \E r \in Ids : StreamEnded(r)
    \/ TimerFired
    \/ \E u \in Ids, rsp \in Responses :
          UploadResponded(u, rsp.status, rsp.body)
    \/ \E u \in Ids : UploadFailed(u)

Next ==
    \/ \E v \in Range(JobTexts) : setJobDescription(v)
    \/ RecordingNext

Spec == Init /\ [][Next]_vars

\* The component with the job description field left as it is.  No step of
\* RecordingNext reads the job description but to copy it into the form of
\* the POST.
RecordingSpec == Init /\ [][RecordingNext]_vars

----------------------------------------------------------------------------
\* The render: what the returned tree shows, as a function of the state.
ShowProgress == loading
ShowResult == result # NoResult
ButtonLabel == IF isRecording THEN "Stop Recording" ELSE "Start Recording (30s)"

TypeOK ==
    /\ isRecording \in BOOLEAN /\ loading \in BOOLEAN
    /\ jobDescription \in Range(JobTexts)
    /\ mediaRecorderRef \in Ids \cup {NoRecorder}
    /\ started \in 0..MaxStarts
    /\ \A i \in Ids :
        /\ mic[i] \in {"none", "pending", "granted", "denied"}
        /\ recState[i] \in {"none", "recording", "inactive"}
        /\ upl[i] \in {"none", "inflight", "ok", "failed"}

----------------------------------------------------------------------------
\* Sessions

\* The recorders that capture: in state 'recording' after a start() that
\* returned.  A recorder that a throwing start() left in state 'recording'
\* captures nothing.
Capturing == {r \in Ids : recState[r] = "recording" /\ r \notin startFailed}
LiveStreams == {r \in Ids : trackLive[r]}
InFlight == {u \in Ids : upl[u] = "inflight"}

\* C1: at most one recording session is active: no two recorders created by
\* startRecording capture at the same time, and no two microphone streams are
\* held at the same time.
C1_AtMostOneSession ==
    /\ Cardinality(Capturing) <= 1
    /\ Cardinality(LiveStreams) <= 1

\* C2: a manual stop cancels that session's auto-stop: the deadline timer
\* armed by a start whose recording was stopped manually stops no recording.
C2_ManualStopCancelsAutoStop ==
    \A t \in Ids : stoppedBy[t] = Manual =>
        \A r \in Ids : stoppedBy[r] # ByTimer(t)

\* C3: a recording that is not stopped manually is stopped by its own
\* deadline timer: a recorder is capturing only while the timer armed by its
\* start is still pending, so that no recorder captures past its deadline.
C3_StoppedByOwnDeadline ==
    \A r \in Capturing : r \in Range(timers)

\* C4: the blob a session hands to the uploader is the concatenation, in
\* delivery order, of exactly the chunks delivered to that session's recorder.
C4_BlobIsSessionChunks ==
    \A r \in InFlight : uplBlob[r] = Blob(Delivered(r))

\* C5: whenever stop() takes effect on a recorder (its state leaves
\* 'recording' in a step of stopRecording, which the recorder's stoppedBy
\* records), by a click or by a deadline timer, the tracks of that recorder's
\* stream are stopped in the same step, and isRecording is false after it.
C5_StopReleasesDevice ==
    [][\A r \in Ids :
          (/\ recState[r] = "recording" /\ recState'[r] = "inactive"
           /\ stoppedBy'[r] # stoppedBy[r]) =>
              /\ ~trackLive'[r]
              /\ ~isRecording'
              /\ stoppedBy'[r] \in {Manual} \cup {ByTimer(t) : t \in Ids}]_vars

\* Both stop paths have been taken: one recorder was stopped by a click and
\* another by a deadline timer, and neither stream is live.
C5_Witness ==
    \E a, b \in Ids :
        /\ stoppedBy[a] = Manual /\ ~trackLive[a] /\ recState[a] = "inactive"
        /\ stoppedBy[b] \in {ByTimer(t) : t \in Ids}
        /\ ~trackLive[b] /\ recState[b] = "inactive"

\* C6: when getUserMedia rejects, the user is notified and nothing else
\* changes: isRecording keeps its value (false when no other session runs), no
\* recorder or stream is created, the chunk buffer is not reset, no timer is
\* armed and no upload is triggered.
C6_DeniedLeavesState ==
    [][\A id \in Ids :
          (mic[id] = "pending" /\ mic'[id] = "denied") =>
              /\ micAlerts' = micAlerts + 1
              /\ UNCHANGED <<isRecording, mediaRecorderRef, chunksRef, recState,
                             trackLive, nDelivered, stopTasks, timers, upl,
                             posts, loading, result, uploadAlerts>>]_vars

\* A start was refused after an earlier session had left chunks in the
\* buffer: the buffer is still there and the component is not recording.
C6_Witness ==
    \E id \in Ids :
        /\ mic[id] = "denied" /\ micAlerts = 1
        /\ ~isRecording /\ chunksRef # <<>> /\ recState[id] = "none"

\* C7: a failed upload leaves the displayed result as it was, notifies the
\* user and clears the loading flag.
C7_UploadFailureKeepsResult ==
    [][\A u \in Ids :
          (upl[u] = "inflight" /\ upl'[u] = "failed") =>
              /\ result' = result
              /\ uploadAlerts' = uploadAlerts + 1
              /\ loading' = FALSE]_vars

\* An upload failed while an earlier result was displayed: the result is
\* still displayed and loading is cleared.
C7_Witness ==
    \E u \in Ids :
        /\ upl[u] = "failed" /\ uploadAlerts = 1
        /\ result # NoResult /\ ~loading

\* C8: while loading is true the progress indicator is shown and no result
\* section is visible.
C8_LoadingSuppressesResult ==
    loading => (ShowProgress /\ ~ShowResult)

\* C9: control flow is linear: while an upload is in flight no recording is
\* active.
C9_NoRecordingDuringUpload ==
    InFlight # {} => (~isRecording /\ Capturing = {})

\* The recording of recorder r has stopped: r has left state 'recording' and
\* the task of its last events is queued or has run.  A recorder that start()
\* left 'inactive' when it threw is 'inactive' too, but was never queued and
\* has delivered nothing.
HasStopped(r) ==
    /\ recState[r] = "inactive"
    /\ r \in Range(stopTasks) \/ nDelivered[r] > 0

\* C10: every recorder whose recording has stopped (by a click, by a timer or
\* because its stream ended) has its stop task still queued or has had
\* exactly one POST issued for it, and no POST is issued for a recorder whose
\* recording has not stopped.
C10_OnePostPerStop ==
    \A r \in Ids :
        /\ posts[r] = IF HasStopped(r) /\ r \notin Range(stopTasks)
                      THEN 1 ELSE 0
        /\ r \in Range(stopTasks) => recState[r] = "inactive"
        /\ upl[r] # "none" <=> posts[r] = 1
        /\ Cardinality({i \in DOMAIN stopTasks : stopTasks[i] = r}) <= 1

\* A recorder stopped by a click and a recorder stopped by a timer have each
\* had their one POST issued.
C10_Witness ==
    \E a, b \in Ids :
        /\ stoppedBy[a] = Manual /\ posts[a] = 1
        /\ stoppedBy[b] \in {ByTimer(t) : t \in Ids} /\ posts[b] = 1

----------------------------------------------------------------------------
\* Scheduling: an armed timer fires, a queued recorder task runs and a fetch
\* settles.  Clicks, typing, the answer to the permission prompt and chunk
\* delivery are up to the user and the device.
UploadSettled ==
    \/ \E u \in Ids, rsp \in Responses :
          UploadResponded(u, rsp.status, rsp.body)
    \/ \E u \in Ids : UploadFailed(u)

FairSpec ==
    /\ Spec
    /\ WF_vars(TimerFired)
    /\ WF_vars(RecorderStopped)
    /\ WF_vars(UploadSettled)

Idle ==
    /\ ~isRecording
    /\ ~loading
    /\ Capturing = {}
    /\ InFlight = {}

\* C11: the terminal state is Idle: given that timers fire and uploads
\* settle, from every reachable state the component eventually is not
\* recording and not loading, with no recorder capturing and no upload in
\* flight.
C11_EventuallyIdle == []<>Idle

BodyOfStatus(status) == {rsp.body : rsp \in {x \in Responses : x.status = status}}

\* C12: when an upload receives a response whose body parses, whatever its
\* HTTP status, the result becomes exactly the parsed body of that response
\* (nothing of the previous result is kept) and loading is cleared.
C12_ResponseReplacesResult ==
    [][\A u \in Ids :
          (upl[u] = "inflight" /\ upl'[u] = "ok") =>
              /\ result' \in {<<[sub |-> u, data |-> b]>> : b \in Bodies}
              /\ loading' = FALSE
              /\ uploadAlerts' = uploadAlerts]_vars

\* The body of a response with a status outside 200..299 is the result, in
\* place of the result of an earlier upload that was answered too.
C12_Witness ==
    \E u, v \in Ids, st \in Statuses :
        /\ u # v /\ upl[u] = "ok" /\ upl[v] = "ok"
        /\ ~ResponseOk(st)
        /\ result \in {<<[sub |-> u, data |-> b]>> : b \in BodyOfStatus(st)}
        /\ ~loading

\* C13: when getUserMedia resolves and the start succeeds (the try block runs
\* to its end, nothing is alerted), the chunk buffer is emptied whatever an
\* earlier session left in it, the new recorder captures on a live stream and
\* is the current one, isRecording is true and its deadline timer is armed
\* behind the timers armed before.
C13_StartResetsAndArms ==
    [][\A id \in Ids :
          (/\ mic[id] = "pending" /\ mic'[id] = "granted"
           /\ micAlerts' = micAlerts) =>
              /\ chunksRef' = <<>>
              /\ recState'[id] = "recording" /\ trackLive'[id]
              /\ mediaRecorderRef' = id
              /\ isRecording'
              /\ timers' = Append(timers, id)
              /\ UNCHANGED <<loading, result, upl, posts>>]_vars

\* A second session has started after a first one was recorded and uploaded
\* with chunks: the buffer is empty again and the second recorder captures.
C13_Witness ==
    \E a, b \in Ids :
        /\ a # b /\ upl[a] # "none" /\ nDelivered[a] > 1
        /\ mediaRecorderRef = b /\ recState[b] = "recording" /\ isRecording
        /\ nDelivered[b] = 0 /\ chunksRef = <<>> /\ b \in Range(timers)

\* mediaRecorderRef.current?.state === 'recording', the test of stopRecording
\* and of the timer callback.
CurrentCapturing ==
    mediaRecorderRef # NoRecorder /\ recState[mediaRecorderRef] = "recording"

\* C14: stop() is a no-op unless the current recorder is capturing.  A deadline
\* timer that fires when it is not changes nothing but the timer queue
\* (isRecording, the recorders, the streams, the chunk buffer, loading and
\* result stay as they are and no upload is triggered), and no step at all,
\* so no click on the button either, then stops a recorder (stoppedBy keeps
\* no caller for it) or turns isRecording off.
C14_StopIsNoOpUnlessRecording ==
    [][~CurrentCapturing =>
          /\ Len(timers') < Len(timers) =>
                UNCHANGED <<isRecording, mediaRecorderRef, chunksRef, recState,
                            trackLive, stopTasks, stoppedBy, nDelivered,
                            loading, result, upl, posts>>
          /\ isRecording => isRecording'
          /\ \A r \in Ids : stoppedBy[r] = NotStopped =>
                               stoppedBy'[r] = NotStopped]_vars

\* The stream of the only session was ended by the host and its deadline
\* timer has fired afterwards: the timer has stopped nothing, isRecording is
\* still true (a click on the button is a call of stopRecording that does
\* nothing) and the one POST is the one issued when the stream ended.
C14_Witness ==
    /\ started = 1 /\ mic[1] = "granted" /\ timers = <<>>
    /\ recState[1] = "inactive" /\ stoppedBy[1] = NotStopped
    /\ posts[1] = 1 /\ upl[1] = "inflight" /\ isRecording

----------------------------------------------------------------------------
\* The render in full: the blocks of the returned tree, top to bottom.

\* Longest matched_keywords list and longest feedback list of a body.
MaxKeywords == 2
MaxFeedback == 2

SeqsUpTo(S, n) == UNION {[1..k -> S] : k \in 0..n}

\* Numbers of a parsed body are binary doubles: the double nearest to the
\* decimal written in the JSON text, with a significand of 53 bits.
RECURSIVE BitLength(_)
BitLength(n) == IF n = 0 THEN 0 ELSE 1 + BitLength(n \div 2)

\* The sign of (double - decimal) for a decimal whose binary expansion is
\* produced bit by bit: rem is what is left of the fraction, in thousandths of
\* the place of the bit produced last, left the number of significand bits
\* still to produce, seen whether a 1 bit was produced, last the bit produced
\* last.  The halfway case rounds to the even significand.
RECURSIVE DoubleError(_, _, _, _)
DoubleError(rem, left, seen, last) ==
    IF rem = 0 THEN 0
    ELSE IF left = 0
         THEN IF 2 * rem < 1000 THEN -1
              ELSE IF 2 * rem > 1000 THEN 1
              ELSE IF last = 1 THEN 1 ELSE -1
         ELSE LET bit == (2 * rem) \div 1000
                  sig == seen \/ bit = 1
              IN DoubleError((2 * rem) % 1000,
                             IF sig THEN left - 1 ELSE left, sig, bit)

\* x.toFixed(1) of a number x >= 0 written in thousandths: the n for which
\* n / 10 is nearest to the double x, the larger n if two are as near.  Two
\* are as near only when the double is exactly x.x5; a decimal x.x5 whose
\* double lies below it goes down.  The result is in tenths.
ToFixed1(thousandths) ==
    LET whole == thousandths \div 1000
        err == DoubleError(thousandths % 1000, 53 - BitLength(whole),
                           whole > 0, whole % 2)
    IN IF thousandths % 100 = 50 /\ err < 0
       THEN thousandths \div 100
       ELSE (thousandths + 50) \div 100

\* parts.join(sep): the parts with sep between neighbours.
RECURSIVE Join(_, _)
Join(parts, sep) ==
    IF Len(parts) <= 1 THEN parts
    ELSE <<Head(parts), sep>> \o Join(Tail(parts), sep)

Block(kind, text, tenths) == [kind |-> kind, text |-> text, tenths |-> tenths]

\* The score section with the keyword line shown for an empty list too.
RenderScore_alwaysKeywordLine(score) ==
    IF score = <<>> THEN <<>>
    ELSE <<Block("relevance", <<"%">>, ToFixed1(score[1].score)),
           Block("keywords",
                 <<"Matched Keywords: ">> \o Join(score[1].matched_keywords, ", "),
                 0)>>

\* {result.score && (...)}: the relevance section, and inside it the keyword
\* line if matched_keywords.length > 0.
RenderScore(score) ==
    IF score = <<>> THEN <<>>
    ELSE <<Block("relevance", <<"%">>, ToFixed1(score[1].score))>>
         \o (IF Len(score[1].matched_keywords) > 0
             THEN <<Block("keywords",
                          <<"Matched Keywords: ">>
                              \o Join(score[1].matched_keywords, ", "),
                          0)>>
             ELSE <<>>)

\* result.feedback.map(...): one block per entry, in order.
RenderFeedback(feedback) ==
    [i \in 1..Len(feedback) |-> Block("feedback", <<feedback[i]>>, 0)]

\* {result && (...)} for a held result.
RenderResult(data) ==
    <<Block("answer", <<data.transcription>>, 0),
      Block("total_words", <<>>, 10 * data.analysis.total_words),
      Block("filler_words", <<>>, 10 * data.analysis.filler_words),
      Block("filler_ratio", <<"%">>, ToFixed1(data.analysis.filler_ratio * 100))>>
    \o RenderScore(data.score)
    \o <<Block("feedback_heading", <<"Feedback & Suggestions">>, 0)>>
    \o RenderFeedback(data.feedback)

View ==
    <<Block("job_description", <<jobDescription>>, 0),
      Block("button", <<ButtonLabel>>, 0)>>
    \o (IF ShowProgress
        THEN <<Block("progress", <<"Processing your response...">>, 0)>>
        ELSE <<>>)
    \o (IF ShowResult THEN RenderResult(result[1].data) ELSE <<>>)

BlocksOf(kind) ==
    LET IsKind(b) == b.kind = kind IN SelectSeq(View, IsKind)

\* Scores of the bodies for the render, in thousandths: 82.456, and 0.15 and
\* 0.25, which are halfway between two tenths as decimals.
RenderScores == {82456, 150, 250}

\* Bodies for the render: every score (absent, or present with each of
\* RenderScores and every keyword list up to MaxKeywords) with every feedback
\* list up to MaxFeedback.
RenderBodies ==
    { [success |-> ok, transcription |-> "hello world",
       analysis |-> [total_words |-> 2, filler_words |-> 0, filler_ratio |-> 0],
       score |-> sc, feedback |-> fb] :
        ok \in BOOLEAN,
        sc \in {<<>>} \cup
               {<<[score |-> sv, matched_keywords |-> kw]>> :
                    sv \in RenderScores,
                    kw \in SeqsUpTo({"python", "api"}, MaxKeywords)},
        fb \in SeqsUpTo({"Good job", "Slow down"}, MaxFeedback) }

\* One session, recorded and stopped by a click, answered with any of the
\* bodies for the render.
RenderNext ==
    \/ started = 0 /\ ClickStart
    \/ MicGranted(1)
    \/ ClickStop
    \/ RecorderStopped
    \/ \E b \in RenderBodies : UploadResponded(1, 200, b)

RenderSpec == Init /\ [][RenderNext]_vars

\* C15: when a result is present, the relevance section is shown iff the
\* score is present, the keyword line iff the score is present and its
\* matched_keywords list is not empty (then it holds the keywords joined by
\* ', '), and the feedback is shown as one block per entry in the given order.
C15_ScoreAndFeedbackShown ==
    ShowResult =>
        LET data == result[1].data
            hasScore == data.score # <<>>
            hasKeywords == hasScore /\ data.score[1].matched_keywords # <<>>
        IN /\ Len(BlocksOf("relevance")) = IF hasScore THEN 1 ELSE 0
           /\ Len(BlocksOf("keywords")) = IF hasKeywords THEN 1 ELSE 0
           /\ hasKeywords =>
                 \A i \in 1..Len(data.score[1].matched_keywords) :
                     BlocksOf("keywords")[1].text[2 * i]
                         = data.score[1].matched_keywords[i]
           /\ Len(BlocksOf("feedback")) = Len(data.feedback)
           /\ \A i \in 1..Len(data.feedback) :
                 BlocksOf("feedback")[i].text = <<data.feedback[i]>>

\* A result with a score whose keyword list is empty and with two feedback
\* entries is displayed: relevance section, no keyword line, two blocks.
C15_Witness ==
    /\ ShowResult
    /\ result[1].data.score # <<>>
    /\ result[1].data.score[1].matched_keywords = <<>>
    /\ result[1].data.feedback = <<"Slow down", "Good job">>
    /\ Len(BlocksOf("relevance")) = 1
    /\ Len(BlocksOf("keywords")) = 0
    /\ Len(BlocksOf("feedback")) = 2

----------------------------------------------------------------------------
\* C16: the job_description field of a POST is the job description text held
\* in state at the moment the POST is issued.
C16_SendsCurrentJobDescription ==
    [][\A r \in Ids :
          posts'[r] = posts[r] + 1 => uplJd'[r] = jobDescription']_vars

\* C17: whenever isRecording is false and no getUserMedia request is pending,
\* no stream acquired by the component is live and no recorder is capturing.
C17_NothingHeldWhenNotRecording ==
    (~isRecording /\ \A id \in Ids : mic[id] # "pending") =>
        (LiveStreams = {} /\ Capturing = {})

\* C18: loading is true exactly while at least one POST awaits its response.
C18_LoadingIffUploadInFlight ==
    loading <=> InFlight # {}

\* The uploads that were answered with a body that parsed, in order of issue.
Succeeded ==
    LET Ok(u) == upl[u] = "ok" IN SelectSeq(postOrder, Ok)

\* C19: once no upload is in flight, the displayed result is the response to
\* the most recently submitted recording among those that were answered.
C19_LatestSubmissionWins ==
    (InFlight = {} /\ Succeeded # <<>>) =>
        (ShowResult /\ result[1].sub = Succeeded[Len(Succeeded)])

====
